---------------------------- MODULE Spec2Model ----------------------------
(***************************************************************************)
(* A model of wx (src/main.py): the NOAA GSOD station-history parser, the  *)
(* daily-observation parser, the station directory loader, the station     *)
(* data assembler get_wban and the run of main.                            *)
(*                                                                         *)
(* Representation.                                                         *)
(*   - A Python string is a sequence of one-character strings; a few       *)
(*     literals of the program (ROOT, ISH_HISTORY, ".op.gz") are kept as   *)
(*     one element each.                                                   *)
(*   - A text body is the list its split('\n') yields, which is never      *)
(*     empty; [22:] and [1:] drop elements of that list.                   *)
(*   - The result of a call is Ret(v) or Raise(e): [exc, val] with         *)
(*     val = <<v>> or <<>>.                                                *)
(*   - Python None is <<>> and a present optional value v is <<v>>.        *)
(*   - A float is [nan, num, den], den a power of ten, in lowest form.     *)
(***************************************************************************)
EXTENDS Integers, Sequences, FiniteSets, TLC

VARIABLES
    hline,      \* SpecHist: the line last handed to parse_history_line
    hres,       \* SpecHist: what parse_history_line made of it
    gline,      \* SpecGsod: the line last handed to the loop body of get_wban
    gres,       \* SpecGsod: what parse_gsod_line made of it
    dbody,      \* SpecDir: the listing body handed to get_station_histories
    dres,       \* SpecDir: what get_station_histories made of it
    lists,      \* get_wban: t_mean_list, t_max_list, t_min_list, idx_list
    log,        \* the records handed to logging, oldest first
    pc,         \* main: where the run is
    args,       \* main: the parsed command line, [wban, verbose]
    station_histories,  \* main: the directory, once loaded
    wban_sh,    \* get_wban: the record found, None before
    year,       \* get_wban: the year the loop is at
    last_year,  \* get_wban: wban_sh.end.year
    content,    \* get_wban: the lines of the year's archive still to parse
    data,       \* main: the table get_wban returned, None before
    io,         \* what the run did to the world, in order: [op, url, outcome]
    calls,      \* the functions main has called, in order
    exitcode,   \* what main returned, None while it runs
    err,        \* the exception that ended the run, [type, msg]
    fetched,    \* history: the archive texts fetched, [year, text]
    consumed    \* history: the lines handed to the loop body, [year, line]

histVars == <<hline, hres>>

gsodVars == <<gline, gres>>

dirVars == <<dbody, dres>>

tableVars == <<lists, log>>

mainVars == <<pc, args, station_histories, wban_sh, year, last_year, content,
              data, io, calls, exitcode, err, fetched, consumed>>

vars == <<histVars, gsodVars, dirVars, tableVars, mainVars>>

(***************************************************************************)
(* Python values and builtins                                              *)
(***************************************************************************)
None == <<>>

Some(v) == <<v>>

Ret(v) == [exc |-> "none", val |-> <<v>>]

Raise(e) == [exc |-> e, val |-> <<>>]

Min(a, b) == IF a < b THEN a ELSE b

\* c * n, the string of n characters c
Rep(c, n) == [i \in 1..n |-> c]

\* s[a:b] for 0 <= a <= b: the slice stops at the end of the string
Slice(s, a, b) == SubSeq(s, a + 1, Min(b, Len(s)))

DigitChars == {"0", "1", "2", "3", "4", "5", "6", "7", "8", "9"}

DigitVal(c) ==
    CASE c = "0" -> 0 [] c = "1" -> 1 [] c = "2" -> 2 [] c = "3" -> 3
      [] c = "4" -> 4 [] c = "5" -> 5 [] c = "6" -> 6 [] c = "7" -> 7
      [] c = "8" -> 8 [] c = "9" -> 9

AllDigits(s) == \A i \in 1..Len(s) : s[i] \in DigitChars

RECURSIVE DigitsVal(_)
DigitsVal(s) ==
    IF s = <<>> THEN 0
    ELSE 10 * DigitsVal(SubSeq(s, 1, Len(s) - 1)) + DigitVal(s[Len(s)])

RECURSIVE LStrip(_)
LStrip(s) == IF s # <<>> /\ Head(s) = " " THEN LStrip(Tail(s)) ELSE s

RECURSIVE RStrip(_)
RStrip(s) ==
    IF s # <<>> /\ s[Len(s)] = " " THEN RStrip(SubSeq(s, 1, Len(s) - 1)) ELSE s

Strip(s) == RStrip(LStrip(s))

HasSign(t) == t # <<>> /\ t[1] \in {"+", "-"}

Unsigned(t) == IF HasSign(t) THEN Tail(t) ELSE t

Signed(t, n) == IF HasSign(t) /\ t[1] = "-" THEN 0 - n ELSE n

IntOfStripped(t, body) ==
    IF body # <<>> /\ AllDigits(body)
    THEN Ret(Signed(t, DigitsVal(body)))
    ELSE Raise("ValueError")

IntOfText(t) == IntOfStripped(t, Unsigned(t))

\* int(s): blanks around, an optional sign, one digit or more
py_int(s) == IntOfText(Strip(s))

NaN == [nan |-> TRUE, num |-> 0, den |-> 1]

RECURSIVE Lowest(_, _)
Lowest(n, d) ==
    IF d > 1 /\ n % 10 = 0 THEN Lowest(n \div 10, d \div 10)
    ELSE [nan |-> FALSE, num |-> n, den |-> d]

RECURSIVE Pow10(_)
Pow10(k) == IF k = 0 THEN 1 ELSE 10 * Pow10(k - 1)

DotsOf(s) == {i \in 1..Len(s) : s[i] = "."}

FloatOfParts(t, body, dots, whole, frac) ==
    IF body = <<"n", "a", "n">> THEN Ret(NaN)
    ELSE IF /\ Cardinality(dots) <= 1
            /\ AllDigits(whole) /\ AllDigits(frac)
            /\ Len(whole) + Len(frac) >= 1
    THEN Ret(Lowest(Signed(t, DigitsVal(whole \o frac)), Pow10(Len(frac))))
    ELSE Raise("ValueError")

\* the numeral split at its first point, if it has one
FloatOfSplit(t, body, dots, dot) ==
    FloatOfParts(t, body, dots, SubSeq(body, 1, dot - 1),
                 SubSeq(body, dot + 1, Len(body)))

FirstDot(body, dots) ==
    IF dots = {} THEN Len(body) + 1
    ELSE CHOOSE i \in dots : \A j \in dots : i <= j

FloatOfBody(t, body, dots) == FloatOfSplit(t, body, dots, FirstDot(body, dots))

FloatOfText(t, body) == FloatOfBody(t, body, DotsOf(body))

FloatOfStripped(t) == FloatOfText(t, Unsigned(t))

\* float(s): blanks around, an optional sign, then "nan" or a decimal numeral
\* with at most one point and at least one digit
py_float(s) == FloatOfStripped(Strip(s))

\* f / k for a power of ten k (the / 1000.0 and / 10.0 of the parser)
FDiv(f, k) == IF f.nan THEN NaN ELSE Lowest(f.num, f.den * k)

\* f < n, false of not-a-number as every comparison with it is
FLess(f, n) == ~f.nan /\ f.num < n * f.den

IsLeap(y) == (y % 4 = 0 /\ y % 100 # 0) \/ y % 400 = 0

DaysInMonth(y, m) ==
    IF m = 2 THEN (IF IsLeap(y) THEN 29 ELSE 28)
    ELSE IF m \in {4, 6, 9, 11} THEN 30 ELSE 31

\* datetime.date(y, m, d)
py_date(y, m, d) ==
    IF /\ y >= 1 /\ y <= 9999
       /\ m >= 1 /\ m <= 12
       /\ d >= 1 /\ d <= DaysInMonth(y, m)
    THEN Ret(<<y, m, d>>)
    ELSE Raise("ValueError")

RECURSIVE DaysBefore(_, _)
DaysBefore(y, m) == IF m = 1 THEN 0 ELSE DaysBefore(y, m - 1) + DaysInMonth(y, m - 1)

\* date.timetuple()[7], the day of the year
DayOfYear(dt) == DaysBefore(dt[1], dt[2]) + dt[3]

(***************************************************************************)
(* parse_history_line                                                      *)
(***************************************************************************)
\* try: x = <r>  except ValueError: x = None
ExceptValueError(r) ==
    IF r.exc = "none" THEN Ret(r.val)
    ELSE IF r.exc = "ValueError" THEN Ret(None)
    ELSE r

Scaled(r, k) == IF r.exc = "none" THEN Ret(FDiv(r.val[1], k)) ELSE r

\* float(<slice>) / k
ScaledFloat(s, k) == Scaled(py_float(s), k)

DateOfInts(y, m, d) ==
    IF y.exc # "none" THEN y
    ELSE IF m.exc # "none" THEN m
    ELSE IF d.exc # "none" THEN d
    ELSE py_date(y.val[1], m.val[1], d.val[1])

\* int(year), int(month), int(day), datetime.date(...): the first failure wins
DateOf(ys, ms, ds) == DateOfInts(py_int(ys), py_int(ms), py_int(ds))

HistFields == <<"usaf", "wban", "lat", "lon", "el", "begin", "end">>

\* the statement of parse_history_line that computes field f
HistFieldParser_begin_wide(f, line) ==
    CASE f = "usaf"  -> ExceptValueError(py_int(Slice(line, 0, 6)))
      [] f = "wban"  -> ExceptValueError(py_int(Slice(line, 7, 12)))
      [] f = "lat"   -> ExceptValueError(ScaledFloat(Slice(line, 58, 64), 1000))
      [] f = "lon"   -> ExceptValueError(ScaledFloat(Slice(line, 65, 72), 1000))
      [] f = "el"    -> ExceptValueError(ScaledFloat(Slice(line, 73, 79), 10))
      [] f = "begin" -> DateOf(Slice(line, 83, 87), Slice(line, 87, 89),
                               Slice(line, 89, 91))
      [] f = "end"   -> ExceptValueError(
                            DateOf(Slice(line, 92, 96), Slice(line, 96, 98),
                                   Slice(line, 98, 100)))

HistFieldParser(f, line) ==
    CASE f = "usaf"  -> ExceptValueError(py_int(Slice(line, 0, 6)))
      [] f = "wban"  -> ExceptValueError(py_int(Slice(line, 7, 12)))
      [] f = "lat"   -> ExceptValueError(ScaledFloat(Slice(line, 58, 64), 1000))
      [] f = "lon"   -> ExceptValueError(ScaledFloat(Slice(line, 65, 72), 1000))
      [] f = "el"    -> ExceptValueError(ScaledFloat(Slice(line, 73, 79), 10))
      [] f = "begin" -> ExceptValueError(
                            DateOf(Slice(line, 83, 87), Slice(line, 87, 89),
                                   Slice(line, 89, 91)))
      [] f = "end"   -> ExceptValueError(
                            DateOf(Slice(line, 92, 96), Slice(line, 96, 98),
                                   Slice(line, 98, 100)))

StationHistory(line, field) ==
    [usaf    |-> field["usaf"].val[1],
     wban    |-> field["wban"].val[1],
     name    |-> Slice(line, 13, 43),
     country |-> Slice(line, 43, 45),
     state   |-> Slice(line, 49, 51),
     lat     |-> field["lat"].val[1],
     lon     |-> field["lon"].val[1],
     el      |-> field["el"].val[1],
     begin   |-> field["begin"].val[1],
     end     |-> field["end"].val[1]]

FirstOf(S) == CHOOSE i \in S : \A j \in S : i <= j

Raising(field) == {i \in 1..Len(HistFields) : field[HistFields[i]].exc # "none"}

HistoryOf(line, field, raising) ==
    IF raising = {}
    THEN Ret(StationHistory(line, field))
    ELSE Raise(field[HistFields[FirstOf(raising)]].exc)

HistoryOfFields(line, field) == HistoryOf(line, field, Raising(field))

\* The statements run in source order; an exception none of them catches
\* leaves the function at the first statement that raises it.
parse_history_line(line) ==
    HistoryOfFields(line, [f \in {HistFields[i] : i \in 1..Len(HistFields)} |->
                               HistFieldParser(f, line)])

(***************************************************************************)
(* parse_gsod_line and the loop body of get_wban                           *)
(***************************************************************************)
\* t if t < 9000 else float('nan'), read as "no data from 9000 up" but with
\* 9000 itself kept
Missing_above(t) == IF FLess(t, 9000) \/ t = Lowest(9000, 1) THEN t ELSE NaN

\* t if t < 9000 else float('nan')
Missing(t) == IF FLess(t, 9000) THEN t ELSE NaN

Observation(t_mean, t_max, t_min, date) ==
    IF t_mean.exc # "none" THEN t_mean
    ELSE IF t_max.exc # "none" THEN t_max
    ELSE IF t_min.exc # "none" THEN t_min
    ELSE IF date.exc # "none" THEN date
    ELSE Ret([date   |-> date.val[1],
              t_mean |-> Missing(t_mean.val[1]),
              t_max  |-> Missing(t_max.val[1]),
              t_min  |-> Missing(t_min.val[1])])

\* The statements run in source order and nothing is caught: the three
\* temperatures, then the date.
parse_gsod_line(line) ==
    Observation(py_float(Slice(line, 25, 30)), py_float(Slice(line, 102, 108)),
                py_float(Slice(line, 110, 116)),
                DateOf(Slice(line, 14, 18), Slice(line, 18, 20),
                       Slice(line, 20, 22)))

NoRows == [t_mean |-> <<>>, t_max |-> <<>>, t_min |-> <<>>, idx |-> <<>>]

\* a record handed to logging; the root logger drops DEBUG unless --verbose
Logged(lg, verbose, level, msg, arg) ==
    IF level = "DEBUG" /\ ~verbose THEN lg
    ELSE Append(lg, [level |-> level, msg |-> msg, arg |-> arg])

\* the four appends of the loop body
AppendRow(ls, yr, o) ==
    [t_mean |-> Append(ls.t_mean, o.t_mean),
     t_max  |-> Append(ls.t_max, o.t_max),
     t_min  |-> Append(ls.t_min, o.t_min),
     idx    |-> Append(ls.idx, <<yr, DayOfYear(o.date)>>)]

Warned(lg, verbose, line) ==
    IF Len(line) > 0
    THEN Logged(lg, verbose, "WARNING", "Failed to parse line", line)
    ELSE lg

\* the loop body, given what parse_gsod_line made of the line, with a row of
\* not-a-numbers put in for a line that fails
Row_defaults(ls, lg, verbose, yr, line, r) ==
    IF r.exc = "none"
    THEN [lists |-> AppendRow(ls, yr, r.val[1]), log |-> lg]
    ELSE [lists |-> AppendRow(ls, yr, [date |-> <<yr, 1, 1>>, t_mean |-> NaN,
                                       t_max |-> NaN, t_min |-> NaN]),
          log |-> Warned(lg, verbose, line)]

\* the loop body, given what parse_gsod_line made of the line: a row for a
\* line that parses; a warning, and nothing else, for one that does not and
\* is not empty.  Every exception of parse_gsod_line is an Exception, so none
\* leaves the body.
Row(ls, lg, verbose, yr, line, r) ==
    IF r.exc = "none"
    THEN [lists |-> AppendRow(ls, yr, r.val[1]), log |-> lg]
    ELSE [lists |-> ls, log |-> Warned(lg, verbose, line)]

\* one pass of "for line in content.split('\n')[1:]"
LoopBody(ls, lg, verbose, yr, line) ==
    Row(ls, lg, verbose, yr, line, parse_gsod_line(line))

(***************************************************************************)
(* get_station_histories                                                   *)
(***************************************************************************)
HeaderLines == 22

\* lines[n:]
DropFirst(lines, n) == SubSeq(lines, n + 1, Len(lines))

\* the loop that appends to sh_list: a record for each line whose parse
\* returns, in line order; a line whose parse raises an Exception is left out
Returned(line) == parse_history_line(line).exc = "none"

ShListOf(lines) ==
    LET kept == SelectSeq(lines, Returned)
    IN  [i \in 1..Len(kept) |-> parse_history_line(kept[i]).val[1]]

\* ... and is logged with its text
Failed(line) == ~Returned(line)

ShLogOf(lines) ==
    LET bad == SelectSeq(lines, Failed)
    IN  [i \in 1..Len(bad) |->
            [level |-> "ERROR", msg |-> "Error processing line", arg |-> bad[i]]]

\* the loader taking one line fewer for the header
get_station_histories_short_header(text) ==
    Ret([sh_list |-> ShListOf(DropFirst(text, HeaderLines - 1)),
         log |-> ShLogOf(DropFirst(text, HeaderLines - 1))])

\* get_station_histories, given the text of the listing: nothing in it raises
\* but the parse of a line, and the loop catches every Exception of that
get_station_histories(text) ==
    Ret([sh_list |-> ShListOf(DropFirst(text, HeaderLines)),
         log |-> ShLogOf(DropFirst(text, HeaderLines))])

(***************************************************************************)
(* get_wban: the lookup, the year range, the archive's name                *)
(***************************************************************************)
\* the linear search: the position of the last record with this wban, 0 if none
FindStation_last(wban, hist) ==
    LET hits == {i \in 1..Len(hist) : hist[i].wban = Some(wban)}
    IN  IF hits = {} THEN 0 ELSE CHOOSE i \in hits : \A j \in hits : j <= i

\* the linear search: the first record of the directory when none matches
FindStation_fallback(wban, hist) ==
    LET hits == {i \in 1..Len(hist) : hist[i].wban = Some(wban)}
    IN  IF hits = {} THEN Min(1, Len(hist))
        ELSE CHOOSE i \in hits : \A j \in hits : i <= j

\* the linear search: the position of the first record with this wban, 0 if none
FindStation(wban, hist) ==
    LET hits == {i \in 1..Len(hist) : hist[i].wban = Some(wban)}
    IN  IF hits = {} THEN 0 ELSE CHOOSE i \in hits : \A j \in hits : i <= j

NotFound(wban) ==
    [type |-> "Exception",
     msg |-> <<"Couldn't find wban %s in station histories.", wban>>]

Error(type) == [type |-> type, msg |-> <<>>]

NoError == Error("none")

\* xrange(wban_sh.begin.year, wban_sh.end.year + 1): the first and the last
\* year, or the AttributeError of reading .year of None
YearRange(sh) ==
    IF sh.begin = None \/ sh.end = None THEN Raise("AttributeError")
    ELSE Ret(<<sh.begin[1][1], sh.end[1][1]>>)

RECURSIVE NatChars(_)
NatChars(n) ==
    LET d == <<"0", "1", "2", "3", "4", "5", "6", "7", "8", "9">>[(n % 10) + 1]
    IN  IF n < 10 THEN <<d>> ELSE NatChars(n \div 10) \o <<d>>

Padded0(sign, digits, fill) ==
    sign \o Rep("0", IF fill > 0 THEN fill ELSE 0) \o digits

ZeroPadOf(sign, digits, w) == Padded0(sign, digits, w - Len(sign) - Len(digits))

\* '%0<w>d' % n
ZeroPad(n, w) ==
    ZeroPadOf(IF n < 0 THEN <<"-">> ELSE <<>>, NatChars(IF n < 0 THEN 0 - n ELSE n), w)

ROOT == <<"http://www1.ncdc.noaa.gov/pub/data/gsod">>

ISH_HISTORY == <<"ish-history.txt">>

\* '/'.join(parts)
RECURSIVE JoinSlash(_)
JoinSlash(parts) ==
    IF Len(parts) = 1 THEN parts[1]
    ELSE parts[1] \o <<"/">> \o JoinSlash(Tail(parts))

DirectoryUrl == JoinSlash(<<ROOT, ISH_HISTORY>>)

\* '%06d-%05d-%04d.op.gz' % (usaf, wban, year): a TypeError for a None
Filename(sh, y) ==
    IF sh.usaf = None \/ sh.wban = None THEN Raise("TypeError")
    ELSE Ret(ZeroPad(sh.usaf[1], 6) \o <<"-">> \o ZeroPad(sh.wban[1], 5)
                 \o <<"-">> \o ZeroPad(y, 4) \o <<".op.gz">>)

\* the archive's name filed under the year before the one asked for
ArchiveUrl_year_before(file, y) == JoinSlash(<<ROOT, ZeroPad(y - 1, 4), file>>)

\* '/'.join((ROOT, '%04d' % year, filename))
ArchiveUrl(file, y) == JoinSlash(<<ROOT, ZeroPad(y, 4), file>>)

\* pandas.DataFrame(...) of the four lists: the rows, index first
DataFrame(ls) ==
    [i \in 1..Len(ls.idx) |->
        [idx |-> ls.idx[i], t_mean |-> ls.t_mean[i], t_max |-> ls.t_max[i],
         t_min |-> ls.t_min[i]]]

(***************************************************************************)
(* The variables a specification does not use keep these values            *)
(***************************************************************************)
HistIdle == hline = <<>> /\ hres = Raise("not called")

GsodIdle == gline = <<>> /\ gres = Raise("not called")

DirIdle == dbody = <<>> /\ dres = Raise("not called")

TableIdle == lists = NoRows /\ log = <<>>

MainIdle ==
    /\ pc = "idle"
    /\ args = [wban |-> None, verbose |-> FALSE]
    /\ station_histories = <<>>
    /\ wban_sh = None
    /\ year = 0
    /\ last_year = 0
    /\ content = <<>>
    /\ data = None
    /\ io = <<>>
    /\ calls = <<>>
    /\ exitcode = None
    /\ err = NoError
    /\ fetched = <<>>
    /\ consumed = <<>>

(***************************************************************************)
(* Station-history lines: the fixed-width layout parse_history_line reads  *)
(***************************************************************************)
\* a line of 100 characters with the given texts in the seven parsed columns
HistLineOf(tok) ==
    tok["usaf"] \o <<" ">> \o tok["wban"] \o <<" ">> \o Rep("N", 30)
        \o <<"U", "S">> \o Rep(" ", 4) \o <<"V", "T">> \o Rep(" ", 7)
        \o tok["lat"] \o <<" ">> \o tok["lon"] \o <<" ">> \o tok["el"]
        \o Rep(" ", 4) \o tok["begin"] \o <<" ">> \o tok["end"]

GoodTokens ==
    [usaf  |-> <<"7", "2", "6", "1", "7", "0">>,
     wban  |-> <<"1", "4", "7", "4", "2">>,
     lat   |-> <<"+", "4", "4", "4", "6", "8">>,
     lon   |-> <<"-", "0", "7", "3", "1", "5", "0">>,
     el    |-> <<"+", "0", "1", "0", "4", "0">>,
     begin |-> <<"1", "9", "4", "8", "0", "1", "0", "1">>,
     end   |-> <<"2", "0", "1", "2", "1", "2", "3", "1">>]

\* other texts a column can hold: blank, padded, signed, garbled, decimal,
\* not-a-number, and dates that are numerals but no calendar date
OtherTokens ==
    [usaf  |-> {Rep(" ", 6), <<" ", " ", "1", "2", "3", " ">>,
                <<"1", "2", "x", "4", "5", "6">>, <<"-", "0", "0", "0", "4", "2">>},
     wban  |-> {Rep(" ", 5), <<"9", "9", "9", "9", "9">>, <<"1", "4", " ", "4", "2">>},
     lat   |-> {Rep(" ", 6), <<"-", "1", "2", ".", "5", "0">>, <<"4", "4", ".", ".", "4", "6">>},
     lon   |-> {Rep(" ", 7), <<"+", " ", "7", "3", "1", "5", "0">>},
     el    |-> {Rep(" ", 6), <<"n", "a", "n", " ", " ", " ">>, <<"-", "9", "9", "9", "9", "9">>},
     begin |-> {Rep(" ", 8), <<"2", "0", "0", "1", "0", "2", "3", "0">>,
                <<"0", "0", "0", "0", "0", "1", "0", "1">>,
                <<"1", "9", "4", "8", " ", "1", " ", "1">>,
                <<"1", "9", "4", "8", "0", "1", "x", "x">>},
     end   |-> {Rep(" ", 8), <<"2", "0", "1", "1", "1", "3", "0", "1">>,
                <<"2", "0", "0", "0", "0", "2", "2", "9">>,
                <<"N", "O", " ", "D", "A", "T", "A", " ">>}]

HistFieldSet == {HistFields[i] : i \in 1..Len(HistFields)}

BlankTokens == [f \in HistFieldSet |-> Rep(" ", Len(GoodTokens[f]))]

HistBase ==
    {HistLineOf(GoodTokens), HistLineOf(BlankTokens)}
        \cup UNION {{HistLineOf([GoodTokens EXCEPT ![f] = t]) : t \in OtherTokens[f]} :
                        f \in HistFieldSet}

\* lengths a line is cut to: empty, inside a column, at a column's edge, whole
HistCuts == {0, 3, 6, 10, 12, 61, 64, 70, 76, 85, 88, 90, 91, 95, 97, 99, 100}

HistLines == {Slice(l, 0, n) : l \in HistBase, n \in HistCuts}

(***************************************************************************)
(* SpecHist: parse_history_line applied to one line after another          *)
(***************************************************************************)
InitHist == HistIdle /\ GsodIdle /\ DirIdle /\ TableIdle /\ MainIdle

ParseHistoryLine ==
    \E l \in HistLines :
        /\ hline' = l
        /\ hres' = parse_history_line(l)
        /\ UNCHANGED <<gsodVars, dirVars, tableVars, mainVars>>

NextHist == ParseHistoryLine

SpecHist == InitHist /\ [][NextHist]_vars

(***************************************************************************)
(* What the texts of a column are, said without running the parser         *)
(***************************************************************************)
\* s is blanks, a core, blanks; Core(c) says what the core may be
Padded(s, Core(_)) ==
    \E a \in 1..Len(s), b \in 1..Len(s) :
        /\ a <= b
        /\ \A i \in 1..(a - 1) : s[i] = " "
        /\ \A i \in (b + 1)..Len(s) : s[i] = " "
        /\ s[a] # " " /\ s[b] # " "
        /\ Core(SubSeq(s, a, b))

IntCore(c) ==
    \/ AllDigits(c)
    \/ c[1] \in {"+", "-"} /\ Len(c) >= 2 /\ AllDigits(Tail(c))

DecimalCore(c) ==
    \E k \in 0..Len(c) :
        LET sgn == IF c[1] \in {"+", "-"} THEN 1 ELSE 0
            left == SubSeq(c, sgn + 1, k)
            right == SubSeq(c, k + 2, Len(c))
        IN  /\ k >= sgn
            /\ AllDigits(left)
            /\ \/ k = Len(c) /\ Len(left) >= 1
               \/ k < Len(c) /\ c[k + 1] = "." /\ AllDigits(right)
                  /\ Len(left) + Len(right) >= 1

FloatCore(c) ==
    \/ DecimalCore(c)
    \/ c \in {<<"n", "a", "n">>, <<"+", "n", "a", "n">>, <<"-", "n", "a", "n">>}

IsIntText(s) == Padded(s, IntCore)

IsFloatText(s) == Padded(s, FloatCore)

\* year, month and day numerals that name a day of the calendar
IsDateText(ys, ms, ds) ==
    /\ IsIntText(ys) /\ IsIntText(ms) /\ IsIntText(ds)
    /\ LET y == py_int(ys).val[1]
           m == py_int(ms).val[1]
           d == py_int(ds).val[1]
       IN  /\ y \in 1..9999
           /\ m \in 1..12
           /\ d >= 1
           /\ d <= (IF m \in {1, 3, 5, 7, 8, 10, 12} THEN 31
                    ELSE IF m # 2 THEN 30
                    ELSE IF y % 400 = 0 \/ (y % 4 = 0 /\ y % 100 # 0) THEN 29
                    ELSE 28)

\* the columns of field f: <<first, end>>, 0-indexed and end-exclusive
ColumnsOf(f) ==
    CASE f = "usaf" -> <<0, 6>> [] f = "wban" -> <<7, 12>>
      [] f = "lat" -> <<58, 64>> [] f = "lon" -> <<65, 72>>
      [] f = "el" -> <<73, 79>> [] f = "begin" -> <<83, 91>>
      [] f = "end" -> <<92, 100>>

\* what the line holds of the columns of field f
HeldOf(f, line) == Slice(line, ColumnsOf(f)[1], ColumnsOf(f)[2])

\* what the line holds of field f reads as a value of the field's type
Readable(f, line) ==
    LET c == ColumnsOf(f)[1]
    IN  CASE f \in {"usaf", "wban"} -> IsIntText(HeldOf(f, line))
          [] f \in {"lat", "lon", "el"} -> IsFloatText(HeldOf(f, line))
          [] OTHER -> IsDateText(Slice(line, c, c + 4), Slice(line, c + 4, c + 6),
                                 Slice(line, c + 6, c + 8))

HistCalled == hres.exc # "not called"

(***************************************************************************)
(* C6                                                                      *)
(***************************************************************************)
\* C6 as stated: parse_history_line never raises, and a field is absent
\* exactly when the line is too short for the field's columns or what the
\* columns hold does not read as a value of the field's type.
C6_AbsentWhenCutShort ==
    HistCalled =>
        /\ hres.exc = "none"
        /\ \A f \in HistFieldSet :
               hres.val[1][f] = None
                   <=> \/ Len(hline) < ColumnsOf(f)[2]
                       \/ ~Readable(f, hline)

\* parse_history_line returns a StationHistory for every line, and a field is
\* absent exactly when what the line holds of its columns does not read
C6_ReturnsAndAbsentIffUnreadable ==
    HistCalled =>
        /\ hres.exc = "none"
        /\ \A f \in HistFieldSet : hres.val[1][f] = None <=> ~Readable(f, hline)

\* two lines that hold the same text in the columns of a field give the field
\* the same value, whatever their other columns hold
C6_FieldsIndependent ==
    (HistCalled /\ HistCalled') =>
        \A f \in HistFieldSet :
            HeldOf(f, hline) = HeldOf(f, hline')
                => hres.val[1][f] = hres'.val[1][f]

\* C6 (amended): parse_history_line never raises for any line of any length
\* and always returns a StationHistory; each of usaf, wban, lat, lon, el,
\* begin and end is absent exactly when what the line holds of its own columns
\* (the slice, cut at the end of the line) is empty, does not read as the
\* field's type or, for begin and end, names no calendar date; a slice cut
\* short that still reads yields a value; and the value of a field does not
\* depend on the other columns.
C6_HistoryLineTotal ==
    [](C6_ReturnsAndAbsentIffUnreadable) /\ [][C6_FieldsIndependent]_vars

\* a line cut inside the usaf columns was parsed: usaf has a value read from
\* the three characters held, every other field is absent
C6_Witness ==
    /\ HistCalled
    /\ Len(hline) = 3
    /\ hres.exc = "none"
    /\ hres.val[1].usaf = Some(726)
    /\ \A f \in HistFieldSet \ {"usaf"} : hres.val[1][f] = None

(***************************************************************************)
(* Daily-observation lines: the fixed-width layout parse_gsod_line reads   *)
(***************************************************************************)
\* a line of 138 characters with the given texts in the parsed columns
GsodLineOf(tok) ==
    Rep("0", 6) \o <<" ">> \o Rep("0", 5) \o Rep(" ", 2) \o tok["date"]
        \o Rep(" ", 3) \o tok["t_mean"] \o Rep(" ", 72) \o tok["t_max"]
        \o <<"*", " ">> \o tok["t_min"] \o Rep(" ", 22)

GsodGood ==
    [date   |-> <<"2", "0", "0", "0", "0", "3", "0", "1">>,
     t_mean |-> <<" ", "4", "5", ".", "3">>,
     t_max  |-> <<" ", " ", "5", "1", ".", "8">>,
     t_min  |-> <<" ", "-", "4", ".", "0", " ">>]

GsodOther ==
    [date   |-> {<<"2", "0", "0", "1", "0", "2", "2", "9">>, Rep(" ", 8)},
     t_mean |-> {<<"9", "9", "9", "9", ".">>, <<"9", "0", "0", "0", ".">>,
                 <<"8", "9", "9", "9", ".">>, <<" ", "n", "a", "n", " ">>,
                 <<"4", "5", ",", "3", " ">>},
     t_max  |-> {<<"9", "9", "9", "9", ".", "9">>, <<"9", "0", "0", "0", ".", "0">>,
                 <<"8", "9", "9", "9", ".", "9">>, Rep(" ", 6)},
     t_min  |-> {<<"9", "9", "9", "9", ".", "9">>, <<" ", " ", "9", "0", "0", "0">>,
                 <<"1", "2", "3", "4", "5", "6">>, <<"-", "9", "9", "9", "9", ".">>}]

GsodFieldSet == {"date", "t_mean", "t_max", "t_min"}

TempFields == {"t_mean", "t_max", "t_min"}

GsodSentinels ==
    [date   |-> GsodGood["date"],
     t_mean |-> <<"9", "9", "9", "9", ".">>,
     t_max  |-> <<"9", "9", "9", "9", ".", "9">>,
     t_min  |-> <<"9", "9", "9", "9", ".", "9">>]

GsodBase ==
    {GsodLineOf(GsodGood), GsodLineOf(GsodSentinels)}
        \cup UNION {{GsodLineOf([GsodGood EXCEPT ![f] = t]) : t \in GsodOther[f]} :
                        f \in GsodFieldSet}

\* whole lines, lines cut short of a column, and the empty line
GsodLines == GsodBase \cup {Slice(GsodLineOf(GsodGood), 0, n) : n \in {0, 113, 116}}

(***************************************************************************)
(* SpecGsod: the loop body of get_wban fed one line after another          *)
(***************************************************************************)
MaxRows == 2

GsodYears == {1999, 2000}

InitGsod == HistIdle /\ GsodIdle /\ DirIdle /\ TableIdle /\ MainIdle

GsodLoopBody ==
    \E l \in GsodLines, y \in GsodYears :
        /\ Len(lists.idx) < MaxRows
        /\ gline' = l
        /\ gres' = parse_gsod_line(l)
        /\ LET b == LoopBody(lists, <<>>, FALSE, y, l)
           IN  /\ lists' = b.lists
               /\ log' = b.log
        /\ UNCHANGED <<histVars, dirVars, mainVars>>

NextGsod == GsodLoopBody

SpecGsod == InitGsod /\ [][NextGsod]_vars

(***************************************************************************)
(* C9                                                                      *)
(***************************************************************************)
\* f >= n, false of not-a-number
FAtLeast(f, n) == ~f.nan /\ f.num >= n * f.den

TempColumns(f) ==
    CASE f = "t_mean" -> <<25, 30>> [] f = "t_max" -> <<102, 108>>
      [] f = "t_min" -> <<110, 116>>

\* the number float() decodes from the columns of temperature f
Decoded(f, line) == py_float(Slice(line, TempColumns(f)[1], TempColumns(f)[2])).val[1]

CellsOf(ls) ==
    {ls[f][i] : f \in TempFields, i \in 1..Len(ls.idx)}

\* C9: for every line parse_gsod_line accepts, each of t_mean, t_max and
\* t_min is not-a-number when its decoded value is >= 9000 and is the decoded
\* value when it is < 9000, field by field; and no cell of the table built by
\* the loop body of get_wban holds a value >= 9000.
C9_SentinelIsNaN ==
    /\ gres.exc = "none" =>
           \A f \in TempFields :
               /\ FAtLeast(Decoded(f, gline), 9000) => gres.val[1][f] = NaN
               /\ FLess(Decoded(f, gline), 9000) => gres.val[1][f] = Decoded(f, gline)
    /\ \A c \in CellsOf(lists) : ~FAtLeast(c, 9000)

\* a line with the sentinel in t_max alone was accepted and its row is the
\* last of the table: t_max is not-a-number, t_mean and t_min are the numbers
\* decoded
C9_Witness ==
    /\ gres.exc = "none"
    /\ FAtLeast(Decoded("t_max", gline), 9000)
    /\ FLess(Decoded("t_mean", gline), 9000)
    /\ Len(lists.idx) >= 1
    /\ lists.t_max[Len(lists.idx)] = NaN
    /\ lists.t_mean[Len(lists.idx)] = Lowest(453, 10)
    /\ lists.t_min[Len(lists.idx)] = Lowest(0 - 4, 1)

(***************************************************************************)
(* Inputs of a run of main: command lines, listings, archives              *)
(***************************************************************************)
MaxLines == 2

SeqsUpTo(S, n) == UNION {[1..k -> S] : k \in 0..n}

\* --wban as typed: not given, a station of the listings, a station written
\* without its leading zero, a station of no listing, not a number
ArgvWbans ==
    {None, Some(<<"1", "4", "7", "4", "2">>), Some(<<"3", "0", "1", "7">>),
     Some(<<"9", "9", "9", "9", "9">>), Some(<<"1", "x">>)}

Station(usaf, wban, begin, end) ==
    HistLineOf([GoodTokens EXCEPT !["usaf"] = usaf, !["wban"] = wban,
                                  !["begin"] = begin, !["end"] = end])

Usaf == <<"7", "2", "6", "1", "7", "0">>

Wban == <<"1", "4", "7", "4", "2">>

Jan1999 == <<"1", "9", "9", "9", "0", "1", "0", "1">>

Dec2000 == <<"2", "0", "0", "0", "1", "2", "3", "1">>

\* wban 14742, 1999 to 2000
TwoYears == Station(Usaf, Wban, Jan1999, Dec2000)

\* wban 14742 with no begin date, no end date, no usaf
NoBegin == Station(Usaf, Wban, Rep(" ", 8), Dec2000)

NoEnd == Station(Usaf, Wban, Jan1999, <<"2", "0", "0", "0", "1", "3", "0", "1">>)

NoUsaf == Station(Rep(" ", 6), Wban, Jan1999, Dec2000)

\* wban 14742 ending the year before it begins, with and without a usaf
Backwards == Station(Usaf, Wban, Dec2000, Jan1999)

BackwardsNoUsaf == Station(Rep(" ", 6), Wban, Dec2000, Jan1999)

\* wban 03017, the year 2000 only
OtherStation ==
    Station(<<"7", "2", "4", "6", "9", "5">>, <<"0", "3", "0", "1", "7">>,
            <<"2", "0", "0", "0", "0", "1", "0", "1">>, Dec2000)

\* a station with no wban
NoWban == Station(Usaf, Rep(" ", 5), Jan1999, Dec2000)

\* header lines that would parse as a record of wban 14742
ListingHeader == Rep(Station(Rep("9", 6), Wban, Jan1999, Jan1999), HeaderLines)

\* what follows the header: nothing; one station; a station with no wban, two
\* of wban 14742 and the empty line that ends the text; and a first record of
\* wban 14742 that lacks something or runs backwards, before a sound one
ListingTails ==
    {<<>>, <<OtherStation>>, <<NoWban, TwoYears, NoBegin, <<>>>>,
     <<NoBegin, TwoYears>>, <<NoEnd, TwoYears>>, <<NoUsaf, TwoYears>>,
     <<Backwards, TwoYears>>, <<BackwardsNoUsaf, TwoYears>>}

Listings == {ListingHeader \o t : t \in ListingTails}

\* a first line that would parse as an observation
ArchiveHeader ==
    GsodLineOf([GsodGood EXCEPT !["date"] = <<"1", "9", "9", "9", "1", "2", "3", "1">>])

\* an observation, a second one of the same day with no t_max, and a line
\* with a date that is none
ArchiveLines ==
    {GsodLineOf(GsodGood),
     GsodLineOf([GsodGood EXCEPT !["t_max"] = <<"9", "9", "9", "9", ".", "9">>]),
     GsodLineOf([GsodGood EXCEPT !["date"] = <<"2", "0", "0", "1", "0", "2", "2", "9">>])}

Archives == {<<ArchiveHeader>> \o t : t \in SeqsUpTo(ArchiveLines, MaxLines)}

(***************************************************************************)
(* Spec: a run of main                                                     *)
(***************************************************************************)
Init ==
    /\ HistIdle /\ GsodIdle /\ DirIdle /\ TableIdle
    /\ pc = "_setup_cache"
    /\ args \in [wban : ArgvWbans, verbose : BOOLEAN]
    /\ station_histories = <<>>
    /\ wban_sh = None
    /\ year = 0
    /\ last_year = 0
    /\ content = <<>>
    /\ data = None
    /\ io = <<>>
    /\ calls = <<>>
    /\ exitcode = None
    /\ err = NoError
    /\ fetched = <<>>
    /\ consumed = <<>>

\* something done to the world and how it went: "ok" or the exception raised
Did(op, outcome) == [op |-> op, url |-> <<>>, outcome |-> outcome]

\* requests.get(url), with the gzip read of what came back for an archive
Get(url, outcome) == [op |-> "GET", url |-> url, outcome |-> outcome]

\* except: logging.critical(...) with the return left out, so that main goes on
\* to its last two lines
Abort_no_return(e, lg) ==
    /\ pc' = "exit"
    /\ err' = e
    /\ exitcode' = Some(0)
    /\ log' = Logged(Logged(lg, args.verbose, "CRITICAL", "Exiting due to error", <<>>),
                     args.verbose, "DEBUG", "Exiting normally.", <<>>)

\* except: logging.critical(...); return -1
Abort(e, lg) ==
    /\ pc' = "exit"
    /\ err' = e
    /\ exitcode' = Some(0 - 1)
    /\ log' = Logged(lg, args.verbose, "CRITICAL", "Exiting due to error", <<>>)

\* logging.debug("Exiting normally."); return 0
ExitNormally(lg) ==
    /\ pc' = "exit"
    /\ exitcode' = Some(0)
    /\ log' = Logged(lg, args.verbose, "DEBUG", "Exiting normally.", <<>>)
    /\ err' = err

\* _setup_cache(): the cache directory and the cache are there, or it raises
SetupCache ==
    /\ pc = "_setup_cache"
    /\ calls' = Append(calls, "_setup_cache")
    /\ \/ /\ io' = Append(io, Did("setup_cache", "ok"))
          /\ pc' = "get_station_histories"
          /\ UNCHANGED <<log, exitcode, err>>
       \/ /\ io' = Append(io, Did("setup_cache", "OSError"))
          /\ Abort(Error("OSError"), log)
    /\ UNCHANGED <<histVars, gsodVars, dirVars, lists, args, station_histories,
                   wban_sh, year, last_year, content, data, fetched, consumed>>

\* what main does with what get_station_histories returned
Loaded(got) ==
    IF got.exc # "none"
    THEN Abort(Error(got.exc), log) /\ UNCHANGED station_histories
    ELSE /\ station_histories' = got.val[1].sh_list
         /\ IF args.wban = None
            THEN ExitNormally(log \o got.val[1].log)
            ELSE /\ pc' = "get_wban"
                 /\ log' = log \o got.val[1].log
                 /\ UNCHANGED <<exitcode, err>>

\* station_histories = get_station_histories(); if args.wban is not None: ...
GetStationHistories ==
    /\ pc = "get_station_histories"
    /\ calls' = Append(calls, "get_station_histories")
    /\ \/ /\ io' = Append(io, Get(DirectoryUrl, "ConnectionError"))
          /\ Abort(Error("ConnectionError"), log)
          /\ UNCHANGED station_histories
       \/ /\ io' = Append(io, Get(DirectoryUrl, "ok"))
          /\ \E text \in Listings : Loaded(get_station_histories(text))
    /\ UNCHANGED <<histVars, gsodVars, dirVars, lists, args, wban_sh, year,
                   last_year, content, data, fetched, consumed>>

\* get_wban down to the head of its loop over the years
Found(w, i) ==
    IF i = 0
    THEN Abort(NotFound(w), log) /\ UNCHANGED <<wban_sh, year, last_year>>
    ELSE /\ wban_sh' = Some(station_histories[i])
         /\ IF YearRange(station_histories[i]).exc # "none"
            THEN Abort(Error(YearRange(station_histories[i]).exc), log)
                 /\ UNCHANGED <<year, last_year>>
            ELSE /\ year' = YearRange(station_histories[i]).val[1][1]
                 /\ last_year' = YearRange(station_histories[i]).val[1][2]
                 /\ pc' = "year_loop"
                 /\ UNCHANGED <<log, exitcode, err>>

\* get_wban(int(args.wban), station_histories)
Called(w) ==
    IF w.exc # "none"
    THEN Abort(Error(w.exc), log) /\ UNCHANGED <<wban_sh, year, last_year, calls>>
    ELSE /\ calls' = Append(calls, "get_wban")
         /\ Found(w.val[1], FindStation(w.val[1], station_histories))

Lookup ==
    /\ pc = "get_wban"
    /\ Called(py_int(args.wban[1]))
    /\ UNCHANGED <<histVars, gsodVars, dirVars, lists, args, station_histories,
                   content, data, io, fetched, consumed>>

\* the request for the year's archive, with an archive that cannot be had
\* passed over
Fetched_or_skipped(url) ==
    \/ \E e \in {"ConnectionError", "IOError"} :
           /\ io' = Append(io, Get(url, e))
           /\ year' = year + 1
           /\ UNCHANGED <<content, fetched, pc, log, exitcode, err>>
    \/ \E text \in Archives :
           /\ io' = Append(io, Get(url, "ok"))
           /\ content' = Tail(text)
           /\ fetched' = Append(fetched, [year |-> year, text |-> text])
           /\ pc' = "line_loop"
           /\ UNCHANGED <<log, exitcode, err, year>>

\* the request for the year's archive and its decompression
Fetched(url) ==
    \/ \E e \in {"ConnectionError", "IOError"} :
           /\ io' = Append(io, Get(url, e))
           /\ Abort(Error(e), log)
           /\ UNCHANGED <<content, fetched, year>>
    \/ \E text \in Archives :
           /\ io' = Append(io, Get(url, "ok"))
           /\ content' = Tail(text)
           /\ fetched' = Append(fetched, [year |-> year, text |-> text])
           /\ pc' = "line_loop"
           /\ UNCHANGED <<log, exitcode, err, year>>

Named(file) ==
    IF file.exc # "none"
    THEN Abort(Error(file.exc), log) /\ UNCHANGED <<io, content, fetched, year>>
    ELSE Fetched(ArchiveUrl(file.val[1], year))

\* the head of an iteration: the name, the request, the decompression
FetchYear ==
    /\ pc = "year_loop"
    /\ year <= last_year
    /\ Named(Filename(wban_sh[1], year))
    /\ UNCHANGED <<histVars, gsodVars, dirVars, lists, args, station_histories,
                   wban_sh, last_year, data, calls, consumed>>

Parsed(b) == lists' = b.lists /\ log' = b.log

\* one line of the archive
ParseLine ==
    /\ pc = "line_loop"
    /\ content # <<>>
    /\ Parsed(LoopBody(lists, log, args.verbose, year, Head(content)))
    /\ content' = Tail(content)
    /\ consumed' = Append(consumed, [year |-> year, line |-> Head(content)])
    /\ UNCHANGED <<histVars, gsodVars, dirVars, pc, args, station_histories,
                   wban_sh, year, last_year, data, io, calls, exitcode, err,
                   fetched>>

\* the archive is read: on to the next year
NextYear ==
    /\ pc = "line_loop"
    /\ content = <<>>
    /\ year' = year + 1
    /\ pc' = "year_loop"
    /\ UNCHANGED <<histVars, gsodVars, dirVars, tableVars, args,
                   station_histories, wban_sh, last_year, content, data, io,
                   calls, exitcode, err, fetched, consumed>>

EmptyIndex ==
    [type |-> "Exception",
     msg |-> <<"Cannot infer number of levels from empty list">>]

\* the years are done: the table is built and returned.  Whether an index can
\* be built of no tuples at all depends on the pandas at hand.
ReturnTable ==
    /\ pc = "year_loop"
    /\ year > last_year
    /\ \/ /\ data' = Some(DataFrame(lists))
          /\ pc' = "process_data"
          /\ UNCHANGED <<log, exitcode, err>>
       \/ /\ lists.idx = <<>>
          /\ Abort(EmptyIndex, log)
          /\ UNCHANGED data
    /\ UNCHANGED <<histVars, gsodVars, dirVars, lists, args, station_histories,
                   wban_sh, year, last_year, content, io, calls, fetched,
                   consumed>>

\* process_data(data): the printed report, then the three charts, any of
\* which the plotting library may refuse
ProcessData ==
    /\ pc = "process_data"
    /\ calls' = Append(calls, "process_data")
    /\ \/ /\ io' = io \o <<Did("print", "ok")>> \o Rep(Did("plot", "ok"), 3)
          /\ ExitNormally(log)
       \/ \E shown \in 0..2 :
              /\ io' = io \o <<Did("print", "ok")>> \o Rep(Did("plot", "ok"), shown)
                         \o <<Did("plot", "PlotError")>>
              /\ Abort(Error("PlotError"), log)
    /\ UNCHANGED <<histVars, gsodVars, dirVars, lists, args, station_histories,
                   wban_sh, year, last_year, content, data, fetched, consumed>>

Next ==
    \/ SetupCache
    \/ GetStationHistories
    \/ Lookup
    \/ FetchYear
    \/ ParseLine
    \/ NextYear
    \/ ReturnTable
    \/ ProcessData

Spec == Init /\ [][Next]_vars

(***************************************************************************)
(* SpecDir: get_station_histories applied to a listing                     *)
(***************************************************************************)
MaxDir == 2

\* lines of a listing: three stations, a line cut short, the empty line
DirLines == {TwoYears, OtherStation, NoBegin, Slice(TwoYears, 0, 90), <<>>}

\* what comes first: 22 lines, 21 lines, nothing
DirHeads == {ListingHeader, Tail(ListingHeader), <<>>}

DirBodies == {h \o t : h \in DirHeads, t \in SeqsUpTo(DirLines, MaxDir)}

InitDir ==
    /\ HistIdle /\ GsodIdle /\ TableIdle /\ MainIdle
    /\ dbody \in DirBodies
    /\ dres = Raise("not called")

LoadDirectory ==
    /\ dres = Raise("not called")
    /\ dres' = get_station_histories(dbody)
    /\ UNCHANGED <<dbody, histVars, gsodVars, tableVars, mainVars>>

NextDir == LoadDirectory

SpecDir == InitDir /\ [][NextDir]_vars

(***************************************************************************)
(* C7                                                                      *)
(***************************************************************************)
\* the lines of the body after the header whose parse returns, by position
ParsedPositions(text) ==
    {k \in (HeaderLines + 1)..Len(text) : parse_history_line(text[k]).exc = "none"}

\* the i-th smallest member of a set of numbers
Nth(S, i) == CHOOSE k \in S : Cardinality({j \in S : j < k}) = i - 1

\* C7: given the listing body, get_station_histories does not fail and
\* returns the records parsed from the lines after the first 22, in line
\* order: record i is the parse of the i-th line after the header whose parse
\* returns; no header line gives a record and no other line is left out.
C7_DirectoryInLineOrder ==
    dres.exc # "not called" =>
        /\ dres.exc = "none"
        /\ Len(dres.val[1].sh_list) = Cardinality(ParsedPositions(dbody))
        /\ \A i \in 1..Len(dres.val[1].sh_list) :
               dres.val[1].sh_list[i]
                   = parse_history_line(dbody[Nth(ParsedPositions(dbody), i)]).val[1]

\* a listing of 22 header lines that read as records and two stations was
\* loaded: the directory is the two stations, in the order of their lines
C7_Witness ==
    /\ dres.exc = "none"
    /\ dbody = ListingHeader \o <<OtherStation, TwoYears>>
    /\ Len(dres.val[1].sh_list) = 2
    /\ dres.val[1].sh_list[1].wban = Some(3017)
    /\ dres.val[1].sh_list[2].wban = Some(14742)
    /\ dres.val[1].sh_list[2].usaf = Some(726170)

(***************************************************************************)
(* What a run of main has done, read off its state                         *)
(***************************************************************************)
IsGet(e) == e.op = "GET"

IsArchiveGet(e) == e.op = "GET" /\ e.url # DirectoryUrl

\* the archives requested, by URL, in the order of the requests
ArchiveRequests ==
    LET gets == SelectSeq(io, IsArchiveGet)
    IN  [i \in 1..Len(gets) |-> gets[i].url]

Printed == \E i \in 1..Len(io) : io[i].op = "print"

HasCalled(f) == \E i \in 1..Len(calls) : calls[i] = f

IsPrefix(a, b) == Len(a) <= Len(b) /\ a = SubSeq(b, 1, Len(a))

\* the wban asked for, once get_wban is called
Target == py_int(args.wban[1]).val[1]

\* the positions of the directory's records with the wban asked for
Matches == {i \in 1..Len(station_histories) : station_histories[i].wban = Some(Target)}

FirstMatch == station_histories[CHOOSE i \in Matches : \A j \in Matches : i <= j]

\* n written with w digits, for 0 <= n < 10^w
Written(n, w) ==
    [i \in 1..w |->
        <<"0", "1", "2", "3", "4", "5", "6", "7", "8", "9">>[((n \div Pow10(w - i)) % 10) + 1]]

\* <root>/<year>/<usaf:06d>-<wban:05d>-<year:04d>.op.gz
ExpectedUrl(usaf, wban, y) ==
    ROOT \o <<"/">> \o Written(y, 4) \o <<"/">> \o Written(usaf, 6) \o <<"-">>
        \o Written(wban, 5) \o <<"-">> \o Written(y, 4) \o <<".op.gz">>

\* one URL for each year of [begin.year, end.year], in increasing order
ExpectedUrls(sh) ==
    [k \in 1..(sh.end[1][1] - sh.begin[1][1] + 1) |->
        ExpectedUrl(sh.usaf[1], sh.wban[1], sh.begin[1][1] + k - 1)]

YearsOf(sh) ==
    IF sh.end[1][1] >= sh.begin[1][1] THEN sh.end[1][1] - sh.begin[1][1] + 1 ELSE 0

Tagged(y, lines) == [i \in 1..Len(lines) |-> [year |-> y, line |-> lines[i]]]

\* the lines after the first of every archive fetched, in order
RECURSIVE AllLines(_)
AllLines(fs) ==
    IF fs = <<>> THEN <<>>
    ELSE Tagged(Head(fs).year, Tail(Head(fs).text)) \o AllLines(Tail(fs))

Accepted(c) == parse_gsod_line(c.line).exc = "none"

\* the row of an accepted line
RowOf(c) ==
    LET o == parse_gsod_line(c.line).val[1]
    IN  [idx |-> <<c.year, DayOfYear(o.date)>>, t_mean |-> o.t_mean,
         t_max |-> o.t_max, t_min |-> o.t_min]

\* the rows of the accepted lines among cs, in order
RowsOf(cs) ==
    LET kept == SelectSeq(cs, Accepted)
    IN  [i \in 1..Len(kept) |-> RowOf(kept[i])]

(***************************************************************************)
(* C1                                                                      *)
(***************************************************************************)
\* C1: at every point of get_wban the four lists have one length and hold
\* exactly the rows of the lines handed to the loop body that parse_gsod_line
\* accepted, one row per line and in line order, with nothing for a line that
\* failed; the lines handed to the loop body and those still to come are all
\* the lines after the first of every archive fetched, so no failing line ends
\* a year or the run; and the table returned is the rows of all of them.
C1_RowsAreAcceptedLines ==
    LET rows == RowsOf(consumed)
    IN  /\ Len(lists.t_mean) = Len(lists.idx)
        /\ Len(lists.t_max) = Len(lists.idx)
        /\ Len(lists.t_min) = Len(lists.idx)
        /\ Len(lists.idx) = Len(rows)
        /\ \A i \in 1..Len(lists.idx) :
               /\ lists.idx[i] = rows[i].idx
               /\ lists.t_mean[i] = rows[i].t_mean
               /\ lists.t_max[i] = rows[i].t_max
               /\ lists.t_min[i] = rows[i].t_min
        /\ consumed \o Tagged(year, content) = AllLines(fetched)
        /\ pc # "line_loop" => content = <<>>
        /\ data # None => data[1] = RowsOf(AllLines(fetched))

\* two years were fetched, each with a failing line before an accepted one,
\* and the table returned has the two accepted rows
C1_Witness ==
    /\ data # None
    /\ Len(fetched) = 2
    /\ \A k \in 1..2 :
           /\ Len(fetched[k].text) = 3
           /\ ~Accepted([year |-> 0, line |-> fetched[k].text[2]])
           /\ Len(fetched[k].text[2]) > 0
           /\ Accepted([year |-> 0, line |-> fetched[k].text[3]])
    /\ Len(data[1]) = 2
    /\ data[1][1].idx = <<1999, 61>>
    /\ data[1][2].idx = <<2000, 61>>
    /\ Len(log) >= 2

(***************************************************************************)
(* C2                                                                      *)
(***************************************************************************)
\* C2: no two rows of the table carry the same (year, day-of-year) index
C2_UniqueKeys ==
    \A i \in 1..Len(lists.idx), j \in 1..Len(lists.idx) :
        lists.idx[i] = lists.idx[j] => i = j

(***************************************************************************)
(* C3                                                                      *)
(***************************************************************************)
\* C3: when get_wban is called with a wban that no record of the directory
\* has, it raises the station-not-found error naming that wban and nothing
\* else, no archive is requested, and main ends with a nonzero exit code and
\* no report.
C3_StationNotFound ==
    (HasCalled("get_wban") /\ Matches = {}) =>
        /\ pc = "exit"
        /\ err.type = "Exception"
        /\ err.msg = <<"Couldn't find wban %s in station histories.", Target>>
        /\ ArchiveRequests = <<>>
        /\ exitcode # None /\ exitcode # Some(0)
        /\ data = None
        /\ ~Printed
        /\ ~HasCalled("process_data")

\* wban 99999 was asked for of a directory of four records
C3_Witness ==
    /\ HasCalled("get_wban")
    /\ Target = 99999
    /\ Len(station_histories) = 4
    /\ Matches = {}
    /\ err = NotFound(99999)
    /\ exitcode = Some(0 - 1)

(***************************************************************************)
(* C4                                                                      *)
(***************************************************************************)
\* every request made so far came back, and every archive decompressed
NoFetchFailed == \A i \in 1..Len(io) : IsGet(io[i]) => io[i].outcome = "ok"

\* C4 as stated: with a matching record whose begin and end are present, a run
\* in which no fetch failed has requested one archive for each year of
\* [begin.year, end.year].
C4_EveryYearRequested ==
    (pc = "exit" /\ HasCalled("get_wban") /\ Matches # {}
        /\ FirstMatch.begin # None /\ FirstMatch.end # None /\ NoFetchFailed)
        => Len(ArchiveRequests) = YearsOf(FirstMatch)

\* C4 (amended): get_wban uses the first record of the directory with the
\* wban asked for.  When that record has a begin and an end date, and a usaf
\* unless begin.year > end.year: the archives requested are at every point the
\* first of the URLs <root>/<year>/<usaf>-<wban>-<year>.op.gz of the years
\* begin.year, ..., end.year in increasing order, none outside that range;
\* they are all of them once the loop over the years is done, which it is in
\* every run where no fetch and no decompression fails; and when
\* begin.year > end.year none is requested and the table has no row.
C4_RequestsFollowYearRange ==
    (HasCalled("get_wban") /\ Matches # {}) =>
        /\ wban_sh = Some(FirstMatch)
        /\ (FirstMatch.begin # None /\ FirstMatch.end # None
               /\ (FirstMatch.usaf # None \/ YearsOf(FirstMatch) = 0)) =>
               /\ YearsOf(FirstMatch) = 0 =>
                      /\ ArchiveRequests = <<>>
                      /\ lists = NoRows
                      /\ data # None => data[1] = <<>>
               /\ YearsOf(FirstMatch) # 0 =>
                      /\ IsPrefix(ArchiveRequests, ExpectedUrls(FirstMatch))
                      /\ ((pc = "year_loop" /\ year > last_year)
                             \/ pc = "process_data" \/ data # None)
                             => ArchiveRequests = ExpectedUrls(FirstMatch)
                      /\ (pc = "exit" /\ NoFetchFailed)
                             => ArchiveRequests = ExpectedUrls(FirstMatch)

\* wban 14742 was asked for of a directory whose second record is the first
\* with that wban and whose third has it too: the table was returned after
\* the archives of 1999 and 2000 were requested by name
C4_Witness ==
    /\ data # None
    /\ Len(station_histories) = 4
    /\ Matches = {2, 3}
    /\ wban_sh = Some(station_histories[2])
    /\ ArchiveRequests =
           << ROOT \o <<"/", "1", "9", "9", "9", "/", "7", "2", "6", "1", "7", "0",
                         "-", "1", "4", "7", "4", "2", "-", "1", "9", "9", "9",
                         ".op.gz">>,
              ROOT \o <<"/", "2", "0", "0", "0", "/", "7", "2", "6", "1", "7", "0",
                         "-", "1", "4", "7", "4", "2", "-", "2", "0", "0", "0",
                         ".op.gz">> >>

(***************************************************************************)
(* C5                                                                      *)
(***************************************************************************)
ArchiveFailed ==
    \E i \in 1..Len(io) : IsArchiveGet(io[i]) /\ io[i].outcome # "ok"

\* C5: once the fetch or the decompression of a year's archive has failed,
\* the run is over: that request is the last thing done, for the year the loop
\* was at, no table is returned though rows of earlier years may be in the
\* lists, process_data is not called, the failure is logged as critical and
\* main has returned a nonzero exit code.
C5_FetchFailureAborts ==
    ArchiveFailed =>
        /\ pc = "exit"
        /\ ~ENABLED Next
        /\ IsArchiveGet(io[Len(io)])
        /\ io[Len(io)].outcome = err.type
        /\ Len(ArchiveRequests) = Len(fetched) + 1
        /\ Len(ArchiveRequests) = year - wban_sh[1].begin[1][1] + 1
        /\ \A i \in 1..(Len(io) - 1) : io[i].outcome = "ok"
        /\ data = None
        /\ ~HasCalled("process_data")
        /\ ~Printed
        /\ log # <<>> /\ log[Len(log)].level = "CRITICAL"
        /\ exitcode # None /\ exitcode # Some(0)

\* the archive of 1999 gave a row, the archive of 2000 did not decompress
C5_Witness ==
    /\ ArchiveFailed
    /\ io[Len(io)].outcome = "IOError"
    /\ Len(fetched) = 1
    /\ Len(lists.idx) >= 1
    /\ year = 2000
    /\ exitcode = Some(0 - 1)

(***************************************************************************)
(* C8                                                                      *)
(***************************************************************************)
Stage(e) ==
    CASE e.op = "setup_cache" -> 1
      [] e.op = "GET" /\ e.url = DirectoryUrl -> 2
      [] e.op = "GET" /\ e.url # DirectoryUrl -> 3
      [] e.op = "print" -> 4
      [] e.op = "plot" -> 5

\* the year a request for an archive names as its directory
YearDir(url) == DigitsVal(SubSeq(url, Len(ROOT) + 2, Len(ROOT) + 5))

\* C8: main runs its steps one after another: the cache setup, then the
\* request for the directory, then the requests for the archives in
\* increasing year order, then the report; each step is taken only when the
\* one before it did not fail.  With no --wban the run requests the directory
\* and no archive, makes no report and returns 0 when neither of its two
\* steps raised.  main returns 0 exactly when nothing raised, and -1 when
\* something did.
C8_SequentialRun ==
    /\ IsPrefix(calls, <<"_setup_cache", "get_station_histories", "get_wban",
                         "process_data">>)
    /\ \A i \in 1..Len(io), j \in 1..Len(io) :
           i < j => /\ Stage(io[i]) <= Stage(io[j])
                    /\ io[i].outcome = "ok"
                    /\ Stage(io[i]) = Stage(io[j]) => Stage(io[i]) \in {3, 5}
    /\ io # <<>> => Stage(io[1]) = 1
    /\ Len(io) >= 2 => Stage(io[2]) = 2
    /\ Printed => HasCalled("get_wban")
    /\ \A k \in 1..(Len(ArchiveRequests) - 1) :
           YearDir(ArchiveRequests[k + 1]) = YearDir(ArchiveRequests[k]) + 1
    /\ args.wban = None =>
           /\ ArchiveRequests = <<>>
           /\ ~Printed
           /\ ~HasCalled("get_wban")
           /\ (pc = "exit" /\ \A i \in 1..Len(io) : io[i].outcome = "ok") =>
                  /\ exitcode = Some(0)
                  /\ io = <<Did("setup_cache", "ok"), Get(DirectoryUrl, "ok")>>
    /\ pc # "exit" => exitcode = None /\ err = NoError
    /\ pc = "exit" =>
           /\ exitcode \in {Some(0), Some(0 - 1)}
           /\ exitcode = Some(0) <=> err = NoError
           /\ (\E i \in 1..Len(io) : io[i].outcome # "ok") => exitcode = Some(0 - 1)

\* a run with --wban that went through: setup, directory, the archives of
\* 1999 and 2000, the report and its three charts, exit code 0
C8_Witness ==
    /\ pc = "exit"
    /\ exitcode = Some(0)
    /\ calls = <<"_setup_cache", "get_station_histories", "get_wban", "process_data">>
    /\ Len(io) = 8
    /\ [i \in 1..8 |-> Stage(io[i])] = <<1, 2, 3, 3, 4, 5, 5, 5>>
    /\ YearDir(ArchiveRequests[1]) = 1999
    /\ YearDir(ArchiveRequests[2]) = 2000

(***************************************************************************)
(* C10                                                                     *)
(***************************************************************************)
\* C10 as stated: when the first record with the wban asked for lacks its
\* begin, its end or its usaf, get_wban keeps to that record, adds no row and
\* returns no table, requests no archive when it is a date that is missing,
\* and fails with an error other than station-not-found; main returns a
\* nonzero exit code and the report is not run.
C10_IncompleteRecordFails ==
    (HasCalled("get_wban") /\ Matches # {}
        /\ (FirstMatch.begin = None \/ FirstMatch.end = None \/ FirstMatch.usaf = None))
        => /\ wban_sh = Some(FirstMatch)
           /\ lists = NoRows
           /\ data = None
           /\ (FirstMatch.begin = None \/ FirstMatch.end = None) => ArchiveRequests = <<>>
           /\ ~HasCalled("process_data")
           /\ ~Printed
           /\ pc = "exit" =>
                  /\ err # NoError
                  /\ err # NotFound(Target)
                  /\ exitcode # None /\ exitcode # Some(0)

\* the first record with the wban asked for has no begin or no end date, or
\* has no usaf and at least one year to fetch
Incomplete(sh) ==
    \/ sh.begin = None
    \/ sh.end = None
    \/ sh.usaf = None /\ sh.end[1][1] >= sh.begin[1][1]

\* C10 (amended): when the first record with the wban asked for has no begin
\* or no end date, or has no usaf and begin.year <= end.year, get_wban keeps
\* to that record and fails: with an AttributeError for a missing date, with
\* a TypeError for a missing usaf, never with station-not-found; no archive
\* is requested, no row is added, no table is returned, and main returns a
\* nonzero exit code without running the report.
C10_IncompleteRecordFailsBeforeFetch ==
    (HasCalled("get_wban") /\ Matches # {} /\ Incomplete(FirstMatch)) =>
        /\ wban_sh = Some(FirstMatch)
        /\ ArchiveRequests = <<>>
        /\ lists = NoRows
        /\ data = None
        /\ ~Printed
        /\ ~HasCalled("process_data")
        /\ pc \in {"year_loop", "exit"}
        /\ pc = "year_loop" => FirstMatch.begin # None /\ FirstMatch.end # None
        /\ pc = "exit" =>
               /\ err.type = (IF FirstMatch.begin = None \/ FirstMatch.end = None
                              THEN "AttributeError" ELSE "TypeError")
               /\ err # NotFound(Target)
               /\ exitcode # None /\ exitcode # Some(0)

\* the first record of wban 14742 has no usaf, the second is sound: the run
\* ended with a TypeError and the second record was not used
C10_Witness ==
    /\ pc = "exit"
    /\ HasCalled("get_wban")
    /\ Len(station_histories) = 2
    /\ Matches = {1, 2}
    /\ station_histories[1].usaf = None
    /\ station_histories[2].usaf # None
    /\ wban_sh = Some(station_histories[1])
    /\ err.type = "TypeError"
    /\ exitcode = Some(0 - 1)

=============================================================================
